---- MODULE Spec2Model ----
(***************************************************************************)
(* A model of the raven-go client's asynchronous capture-and-delivery      *)
(* pipeline: Client.Capture and its convenience wrappers, the lazily       *)
(* started delivery worker, the bounded queue, the outstanding-work        *)
(* WaitGroup and the per-event result channels; with them the client's     *)
(* destination as SetDSN sets it, its release, environment, default       *)
(* logger name and tags, Close, and the default HTTP transport with its    *)
(* encoder.                                                                *)
(*                                                                         *)
(* Critical sections under Client.mu contain no blocking operation and are *)
(* modelled as single atomic steps; every other access to shared state     *)
(* (queue, WaitGroup, Once, result channel, unlocked field reads) is a     *)
(* step of its own. mu records who holds the lock: SetSampleRate is also   *)
(* given in two steps, so that a step taken inside its critical section    *)
(* can be told from one taken outside.                                     *)
(*                                                                         *)
(* Every capture call has a record: its packet, its result channel and the *)
(* history of what happened to it. The record is with the caller while the *)
(* call runs and while the caller receives on the handle, in the queue     *)
(* once enqueued, and with the worker from the receive on. Caller          *)
(* goroutines are interchangeable and are kept as a bag.                   *)
(***************************************************************************)
EXTENDS Integers, Sequences, FiniteSets, Bags, TLC

\* ---------------------------------------------------------------- bounds
\* Number of caller goroutines using the client concurrently.
NumCallers == 2
\* Number of capture calls made over a run.
MaxEvents == 4
\* Capacity of Client.queue. The package variable defaults to 100 and is
\* meant to be set by the user before NewClient; the model uses a small one.
MaxQueueBuffer == 2
\* The same two for the specifications that add configuration changes or
\* fairness to the steps of Spec.
FewCallers == 1
FewEvents == 3
\* Capture calls in the runs in which the destination is set and changed.
DsnEvents == 3
\* Capture calls in the runs in which callers hand in packets of their own
LabelEvents == 1
\* Capture calls in the runs with Close under fairness and in those with
\* the lock held over several steps: one event behind another
PairEvents == 2

\* ------------------------------------------------------------- constants
\* Capacity of the result channel: make(chan error, 1).
ChanCap == 1
\* Sample rates and random draws in tenths: 10 stands for 1.0.
RateOne == 10
\* serializedPacket deflates a payload longer than this many bytes.
CompressAbove == 1000
\* The one response status HTTPTransport.Send takes for a success.
StatusOK == 200

Messages == {"m1"}
\* packet == nil, err == nil, or recover() == nil
NoArg == "nil"
Args == Messages \cup {NoArg}
Kinds == {"Capture", "Message", "Error", "Panic"}
\* mrand.Float32() lies in [0.0, 1.0)
Draws == {2, 5, 7}
\* No draw was made, no rate was read
NoDraw == -1
\* Arguments handed to SetSampleRate, valid and invalid
RateInputs == {-1, 5, 10, 11}
\* Arguments handed to SetIgnoreErrors
ErrLists == {{"m1"}, {"m2"}}
\* What Transport.Send may return
NilErr == "nil"
SendResults == {NilErr, "sendErr"}
ErrPacketDropped == "ErrPacketDropped"
UuidErr == "uuidErr"
ErrMissingUser == "ErrMissingUser"
ErrMissingProjectID == "ErrMissingProjectID"
\* The error of url.Parse
ParseErr == "parseErr"

\* Client.url, a pair <<host, path>> with the path a sequence of segments
\* ("/a/b" is <<"a", "b">>, "/" is <<"">>), and Client.authHeader, the
\* sequence of the credentials it is formatted from. Both are empty until a
\* SetDSN succeeds.
NoUrl == <<>>
NoAuth == <<>>
\* A URL http.NewRequest cannot parse
BadUrl == <<"%">>

\* Connection strings: text is "" for the empty string, "garbled" for one
\* url.Parse rejects, "uri" otherwise; user is <<>> for no userinfo, <<key>>
\* or <<key, secret>>; path is the sequence of the path's segments, <<>> for
\* no path at all.
Dsn(text, host, user, path) == [text |-> text, host |-> host, user |-> user, path |-> path]
NoDsn == Dsn("", "", <<>>, <<>>)
GarbledDsn == Dsn("garbled", "", <<>>, <<>>)
\* https://k1:s1@h1/p1 and https://k2@h2/p2
Dsn1 == Dsn("uri", "h1", <<"k1", "s1">>, <<"p1">>)
Dsn2 == Dsn("uri", "h2", <<"k2">>, <<"p2">>)
\* https://h1/p1, https://h1/, https://k1:s1@h1/, https://k2@h2
DsnNoUser == Dsn("uri", "h1", <<>>, <<"p1">>)
DsnNeither == Dsn("uri", "h1", <<>>, <<"">>)
DsnNoProject == Dsn("uri", "h1", <<"k1", "s1">>, <<"">>)
DsnNoPath == Dsn("uri", "h2", <<"k2">>, <<>>)
\* https://k2@h2/p1: the project of Dsn1 at another host, under another key
DsnMoved == Dsn("uri", "h2", <<"k2">>, <<"p1">>)
GoodDsns == {Dsn1, DsnMoved}
DsnInputs == {NoDsn, GarbledDsn, Dsn1, Dsn2, DsnNoUser, DsnNeither, DsnNoProject, DsnNoPath}

\* Payload lengths, response statuses and URLs handed to the transport
Lens == {0, 999, 1000, 1001, 2000}
Statuses == {199, 200, 201, 204, 299, 300, 404, 500}
Urls == {NoUrl, BadUrl, <<"h1", <<"api", "p1", "store", "">>>>}

VARIABLES
    sampleRate,          \* Client.sampleRate
    ignoreErrorsRegexp,  \* Client.ignoreErrorsRegexp: [nil, alts]
    DropHandler,         \* Client.DropHandler != nil
    queue,               \* Client.queue: buffered channel of outgoing packets
    wg,                  \* Client.wg: the WaitGroup counter
    start,               \* Client.start: the Once's done flag
    workers,             \* the goroutines running Client.worker
    cl,                  \* the caller goroutines: position and the call's record
    waiter,              \* a goroutine calling Client.Wait
    unsent,              \* history: number of enqueued events whose Send has not returned
    budget,              \* capture calls still to be made in this run
    url,                 \* Client.url
    authHeader,          \* Client.authHeader
    projectID,           \* Client.projectID
    dsnErr,              \* what the last SetDSN returned
    queueState,          \* Client.queue is "open" or "closed"; "fault": closed twice
    tally,               \* history: counts of enqueue attempts and their fates
    tx,                  \* one call of HTTPTransport.Send: its inputs and its result
    mu,                  \* Client.mu: the writer holding it, the readers holding it
    release,             \* Client.release
    environment,         \* Client.environment
    defaultLoggerName,   \* Client.defaultLoggerName
    Tags,                \* Client.Tags, the default tags: a map as a set of <<key, value>>
    contextTags          \* Client.context.tags, a map as a set of <<key, value>>

vars == <<sampleRate, ignoreErrorsRegexp, DropHandler, queue, wg, start, workers,
          cl, waiter, unsent, budget, url, authHeader, projectID, dsnErr,
          queueState, tally, tx, mu, release, environment, defaultLoggerName,
          Tags, contextTags>>

destination == <<url, authHeader, projectID, dsnErr>>
labels == <<release, environment, defaultLoggerName, Tags, contextTags>>
config == <<sampleRate, ignoreErrorsRegexp, DropHandler, destination, mu, labels>>

\* Client.mu with no holder; writer names the setter inside Lock/Unlock and
\* arg is the argument it was called with
MuFree == [writer |-> "", arg |-> 0, readers |-> 0]
\* mu.RLock() and mu.Lock() return at once
CanRLock == mu.writer = ""
CanLock == mu.writer = "" /\ mu.readers = 0

\* ------------------------------------------------------------- records
\* msg: packet.Message (NoArg: no packet); buf, closed: the result channel;
\* awaited: a caller is receiving on the handle.
\* History: outcome (the path the call took), pushed (every value sent on
\* the channel), adds/dones (wg.Add and wg.Done calls for it), sends, sendRes
\* (Transport.Send calls and what they returned), dropCalls (DropHandler
\* calls), returned (the call returned), covered (the configured exclusion
\* pattern has matched the message ever since the call began, up to its last
\* exclusion test), sawFull (the queue was full at the select), rank/inOrder
\* (enqueued events ahead of it whose Send has not returned; there was none
\* when its own Send was called), pre (it had returned, its handle
\* unresolved, when the pending Wait began), gateRate/gateDraw (the rate the
\* sampling gate read and the draw it made, if it made one; kept until the
\* exclusion gate), filled (the required packet fields that are not empty
\* after packet.Init), queuedAt (url and authHeader of the client when the
\* event was enqueued), sentWith (the worker's snapshot of the two), wire
\* (for each Send: whether the packet was marshalled, the requests made);
\* these three are kept until the worker is through with the event; packet
\* (the packet's project, release, environment, logger and tag list), given
\* (the packet as the caller handed it in), captureTags (the tags of the
\* call), snap (the client's fields as Capture read them under the read
\* lock, its default tags and its context tags as Capture merged them);
\* these four are kept while Capture or the worker has the packet.
NoTags == {}
\* The fields of a Packet that Capture fills from the client, as NewPacket
\* leaves them
NewPacket == [Project |-> "", Release |-> "", Environment |-> "", Logger |-> "", Tags |-> <<>>]

NewEvent(arg) ==
    [msg |-> arg, outcome |-> "", buf |-> <<>>, closed |-> FALSE, awaited |-> FALSE,
     pushed |-> <<>>, adds |-> 0, dones |-> 0, sends |-> 0, sendRes |-> <<>>,
     dropCalls |-> 0, returned |-> FALSE, covered |-> FALSE, sawFull |-> FALSE,
     rank |-> 0, inOrder |-> TRUE, pre |-> FALSE, gateRate |-> NoDraw, gateDraw |-> NoDraw,
     filled |-> {}, queuedAt |-> <<>>, sentWith |-> <<>>, wire |-> <<>>,
     packet |-> NewPacket, given |-> NewPacket, captureTags |-> NoTags, snap |-> <<>>]

NoEvent == [NewEvent(NoArg) EXCEPT !.outcome = "none"]
Idle == [pc |-> "idle", ev |-> NoEvent]

Range(q) == {q[k] : k \in 1..Len(q)}

\* Every record there is
Events ==
    {r.ev : r \in BagToSet(cl)} \cup Range(queue) \cup {workers[w].ev : w \in 1..Len(workers)}
LiveEvents == {e \in Events : e.outcome # "none"}

\* Bag b with one copy of x replaced by y
BagReplace(b, x, y) == (b (-) SetToBag({x})) (+) SetToBag({y})

RECURSIVE SumCounts(_, _)
SumCounts(S, b) ==
    IF S = {} THEN 0
    ELSE LET x == CHOOSE x \in S : TRUE IN b[x] + SumCounts(S \ {x}, b)

\* regexp.MatchString for a pattern built by strings.Join(errs, "|") from
\* literal messages
MatchString(re, s) == s \in re.alts

\* The configured exclusion pattern matches message s
PatternMatches(s) == ~ignoreErrorsRegexp.nil /\ MatchString(ignoreErrorsRegexp, s)

\* An exclusion test that never excludes
NeverExclude(errStr) == FALSE

shouldExcludeErr(errStr) ==
    ~ignoreErrorsRegexp.nil /\ MatchString(ignoreErrorsRegexp, errStr)

\* A comparison that skips a draw equal to the rate too
SampledOutAtRate(rate, draw) == rate < RateOne /\ draw >= rate

\* client.sampleRate < 1.0 && mrand.Float32() > client.sampleRate
SampledOut(rate, draw) == rate < RateOne /\ draw > rate

\* A bound check that is off by one
QueueHasRoomOffByOne(q) == Len(q) <= MaxQueueBuffer

\* The send case of Capture's select is ready
QueueHasRoom(q) == Len(q) < MaxQueueBuffer

\* A send that also closes the channel
ChanPushAndClose(e, v) ==
    [e EXCEPT !.buf = Append(@, v), !.pushed = Append(@, v), !.closed = TRUE]

\* ch <- v on a result channel
ChanPush(e, v) == [e EXCEPT !.buf = Append(@, v), !.pushed = Append(@, v)]

\* A close(ch) that was forgotten
LeaveOpen(e) == e

\* close(ch)
ChanClose(e) == [e EXCEPT !.closed = TRUE]

\* What <-ch yields: the buffered value, the zero value (a nil error) of a
\* closed channel, or nothing yet
ChanRecv(e) ==
    IF e.buf # <<>> THEN Head(e.buf) ELSE IF e.closed THEN NilErr ELSE "blocks"

\* The call of caller r returns, leaving its record as e. The caller then
\* receives on the handle (the AndWait variants; a caller of Capture reading
\* ch) or lets it go.
Forget(e) ==
    [e EXCEPT !.packet = NewPacket, !.given = NewPacket, !.captureTags = NoTags, !.snap = <<>>]
Return(r, e) ==
    \/ cl' = BagReplace(cl, r, [pc |-> "recv", ev |-> [Forget(e) EXCEPT !.returned = TRUE]])
    \/ cl' = BagReplace(cl, r, Idle)

\* ----------------------------------------------------------- transport
\* A packet as the transport sees it: the length of packet.JSON(), or its
\* failure
Packets == [len : Lens, jsonErr : BOOLEAN]
SmallPacket == [len |-> 999, jsonErr |-> FALSE]
\* What the network does with a request: t.Do fails, or a response arrives
Nets == [doErr : BOOLEAN, status : Statuses]
PipelineNets == {[doErr |-> FALSE, status |-> StatusOK], [doErr |-> TRUE, status |-> StatusOK]}

\* An encoder that deflates a payload of exactly the threshold length too
serializedPacketAtThreshold(pkt) ==
    IF pkt.jsonErr
    THEN [body |-> "", contentType |-> "", err |-> "marshalErr"]
    ELSE IF pkt.len >= CompressAbove
         THEN [body |-> "base64(zlib)", contentType |-> "application/octet-stream", err |-> NilErr]
         ELSE [body |-> "json", contentType |-> "application/json", err |-> NilErr]

\* serializedPacket: body, content type, error
serializedPacket(pkt) ==
    IF pkt.jsonErr
    THEN [body |-> "", contentType |-> "", err |-> "marshalErr"]
    ELSE IF pkt.len > CompressAbove
         THEN [body |-> "base64(zlib)", contentType |-> "application/octet-stream", err |-> NilErr]
         ELSE [body |-> "json", contentType |-> "application/json", err |-> NilErr]

\* What a Send call did and returned: marshalled (packet.JSON was called),
\* requests (the requests handed to t.Do)
SendOut(err, marshalled, requests) ==
    [err |-> err, marshalled |-> marshalled, requests |-> requests]

\* A Send without the test for an empty URL
HTTPSendUnguarded(u, a, pkt, net) ==
    LET sp == serializedPacket(pkt)
        req == [url |-> u, auth |-> a, contentType |-> sp.contentType, body |-> sp.body]
    IN IF sp.err # NilErr THEN SendOut("serializeErr", TRUE, <<>>)
       ELSE IF u \in {NoUrl, BadUrl} THEN SendOut("requestErr", TRUE, <<>>)
       ELSE IF net.doErr THEN SendOut("sendErr", TRUE, <<req>>)
       ELSE IF net.status # StatusOK THEN SendOut("statusErr", TRUE, <<req>>)
       ELSE SendOut(NilErr, TRUE, <<req>>)

\* HTTPTransport.Send(url, authHeader, packet) with the network doing net
HTTPSend(u, a, pkt, net) ==
    IF u = NoUrl THEN SendOut(NilErr, FALSE, <<>>)
    ELSE LET sp == serializedPacket(pkt)
             req == [url |-> u, auth |-> a, contentType |-> sp.contentType, body |-> sp.body]
         IN IF sp.err # NilErr THEN SendOut("serializeErr", TRUE, <<>>)
            ELSE IF u = BadUrl THEN SendOut("requestErr", TRUE, <<>>)
            ELSE IF net.doErr THEN SendOut("sendErr", TRUE, <<req>>)
            ELSE IF net.status # StatusOK THEN SendOut("statusErr", TRUE, <<req>>)
            ELSE SendOut(NilErr, TRUE, <<req>>)

\* No call of Send under observation
NoTx == [url |-> NoUrl, pkt |-> SmallPacket, net |-> [doErr |-> FALSE, status |-> StatusOK],
         out |-> <<>>]

\* ------------------------------------------------------------ SetDSN
\* The destination of a client: url, authHeader, projectID and what SetDSN
\* returned
Destination(u, a, p, err) == [url |-> u, authHeader |-> a, projectID |-> p, err |-> err]
NoDestination == Destination(NoUrl, NoAuth, "", NilErr)

\* Client.SetDSN(dsn) on a client whose destination is d
AfterSetDSN(dsn, d) ==
    IF dsn.text = "" THEN [d EXCEPT !.err = NilErr]
    ELSE IF dsn.text = "garbled" THEN [d EXCEPT !.err = ParseErr]
    ELSE IF dsn.user = <<>> THEN [d EXCEPT !.err = ErrMissingUser]
    ELSE LET slash == dsn.path # <<>>
             \* strings.LastIndex(uri.Path, "/") != -1: the project becomes
             \* what follows the last slash, else it is left as it was
             project == IF slash THEN dsn.path[Len(dsn.path)] ELSE d.projectID
             path == IF slash
                     THEN SubSeq(dsn.path, 1, Len(dsn.path) - 1) \o <<"api", project, "store", "">>
                     ELSE dsn.path
         IN IF project = ""
            THEN [d EXCEPT !.projectID = project, !.err = ErrMissingProjectID]
            ELSE Destination(<<dsn.host, path>>, dsn.user, project, NilErr)

\* ------------------------------------------------------------ tallies
NoTally == [on |-> FALSE, done |-> 0, taken |-> 0, dropped |-> 0, handled |-> 0, sent |-> 0]
\* The tally with each of the counts named in fields one higher, if
\* counting is on
Count(fields) ==
    [f \in DOMAIN tally |->
        IF f # "on" /\ tally.on /\ f \in fields THEN tally[f] + 1 ELSE tally[f]]

\* The client as newClient and a first SetDSN(dsn) leave it
NewClient(n, calls, dsn) ==
    /\ sampleRate = RateOne
    /\ ignoreErrorsRegexp = [nil |-> TRUE, alts |-> {}]
    /\ DropHandler \in BOOLEAN
    /\ queue = <<>>
    /\ wg = 0
    /\ start = FALSE
    /\ workers = <<>>
    /\ cl = [r \in {Idle} |-> n]
    /\ waiter = "idle"
    /\ unsent = 0
    /\ budget = calls
    /\ LET d == AfterSetDSN(dsn, NoDestination)
       IN /\ url = d.url
          /\ authHeader = d.authHeader
          /\ projectID = d.projectID
          /\ dsnErr = d.err
    /\ queueState = "open"
    /\ mu = MuFree
    /\ release = ""
    /\ environment = ""
    /\ defaultLoggerName = ""
    /\ contextTags = NoTags

\* A client constructed with a destination; nothing is tallied, no Send is
\* under observation
Construct(n, calls) ==
    /\ NewClient(n, calls, Dsn1)
    /\ Tags = NoTags
    /\ tally = NoTally
    /\ tx = NoTx

Init == Construct(NumCallers, MaxEvents)
FewInit == Construct(FewCallers, FewEvents)

\* ------------------------------------------------------------- callers
\* A caller invokes Capture, CaptureMessage, CaptureError or CapturePanic on
\* the client or on a nil *Client. The steps up to the first access to
\* shared state are taken here.
Call(r) ==
    /\ r.pc = "idle"
    /\ budget > 0
    /\ budget' = budget - 1
    /\ \E kind \in Kinds, nilc \in BOOLEAN, arg \in Args :
         /\ kind = "Message" => arg # NoArg
         /\ LET e == [NewEvent(arg) EXCEPT !.covered = ~nilc /\ arg # NoArg /\ PatternMatches(arg)]
                done(o) == Return(r, [ChanClose(e) EXCEPT !.outcome = o])
                goto(l) == cl' = BagReplace(cl, r, [pc |-> l, ev |-> e])
            IN CASE kind = "Capture" ->
                      IF nilc THEN done("nilclient") ELSE goto("sample")
                 [] kind = "Message" ->
                      IF nilc THEN done("nilclient") ELSE goto("wexclude")
                 [] kind = "Error" ->
                      IF arg = NoArg THEN done("noarg")
                      ELSE IF nilc THEN done("nilclient") ELSE goto("wexclude")
                 [] OTHER ->
                      \* capturePanic: f runs, the deferred function recovers
                      IF arg = NoArg THEN done("noarg")
                      ELSE IF nilc
                           THEN \* client.shouldExcludeErr on a nil *Client
                                cl' = BagReplace(cl, r, [pc |-> "panicked",
                                                         ev |-> [e EXCEPT !.outcome = "fault"]])
                           ELSE goto("wexclude")
    /\ UNCHANGED <<config, queueState, tally, tx, queue, wg, start, workers, waiter, unsent>>

\* A caller invokes client.Capture(packet, captureTags) with a packet it
\* built itself, pkt, and the tags of the call, tags
CapturePacket(r, pkt, tags) ==
    /\ r.pc = "idle"
    /\ budget > 0
    /\ budget' = budget - 1
    /\ \E arg \in Messages :
         cl' = BagReplace(cl, r, [pc |-> "sample",
                                  ev |-> [NewEvent(arg) EXCEPT !.covered = PatternMatches(arg),
                                                               !.packet = pkt,
                                                               !.given = pkt,
                                                               !.captureTags = tags]])
    /\ UNCHANGED <<config, queueState, tally, tx, queue, wg, start, workers, waiter, unsent>>

\* The wrappers' own exclusion test, before the packet is built
WrapperExclude(r) ==
    /\ r.pc = "wexclude"
    /\ CanRLock
    /\ IF shouldExcludeErr(r.ev.msg)
       THEN Return(r, [ChanClose(r.ev) EXCEPT !.outcome = "excluded"])
       ELSE cl' = BagReplace(cl, r, [r EXCEPT !.pc = "sample"])
    /\ UNCHANGED <<config, queueState, tally, tx, queue, wg, start, workers, waiter, unsent, budget>>

\* Capture: the sampling gate, then the nil-packet gate. sampleRate is read
\* without the lock, twice; a SetSampleRate between the two reads changes
\* the outcome only to one that a single read of the old or of the new value
\* gives, so the gate reads it once.
Sample(r) ==
    /\ r.pc = "sample"
    /\ \E draw \in Draws :
         \* the draw is made only if the rate is below 1.0
         LET e == [r.ev EXCEPT !.gateRate = sampleRate,
                               !.gateDraw = IF sampleRate < RateOne THEN draw ELSE NoDraw]
         IN IF SampledOut(sampleRate, draw)
            THEN Return(r, [e EXCEPT !.outcome = "sampled"])
            ELSE IF e.msg = NoArg
                 THEN Return(r, [ChanClose(e) EXCEPT !.outcome = "nilpkt"])
                 ELSE cl' = BagReplace(cl, r, [pc |-> "exclude", ev |-> e])
    /\ UNCHANGED <<config, queueState, tally, tx, queue, wg, start, workers, waiter, unsent, budget>>

\* Capture: the exclusion gate
Exclude(r) ==
    /\ r.pc = "exclude"
    /\ CanRLock
    /\ LET e == [r.ev EXCEPT !.gateRate = NoDraw, !.gateDraw = NoDraw]
       IN IF shouldExcludeErr(e.msg)
          THEN Return(r, [e EXCEPT !.outcome = "excluded"])
          ELSE cl' = BagReplace(cl, r, [pc |-> "add", ev |-> e])
    /\ UNCHANGED <<config, queueState, tally, tx, queue, wg, start, workers, waiter, unsent, budget>>

\* Capture: client.wg.Add(1)
Add(r) ==
    /\ r.pc = "add"
    /\ wg' = wg + 1
    /\ cl' = BagReplace(cl, r, [pc |-> "init", ev |-> [r.ev EXCEPT !.adds = @ + 1]])
    /\ UNCHANGED <<config, queueState, tally, tx, queue, start, workers, waiter, unsent, budget>>

\* The fields packet.Init(project) leaves filled in a packet made by
\* NewPacket, which sets none of them: Project is the project handed in;
\* when uuid() fails Init returns before it sets the others
RequiredFields == {"EventID", "Project", "Timestamp", "Level", "Logger"}
PacketInit(project, uuidFails) ==
    (IF project # "" THEN {"Project"} ELSE {})
        \cup (IF uuidFails THEN {} ELSE {"EventID", "Timestamp", "Level", "Logger"})

\* The orders in which a range over map m can yield its entries
Orders(m) ==
    {o \in [1..Cardinality(m) -> m] :
        \A i, j \in 1..Cardinality(m) : i # j => o[i] # o[j]}

\* A merge that keeps one tag per key: a tag whose key the list has takes
\* the place of the one in the list
AddTagsByKey(pkt, order) ==
    LET tags == pkt.Tags
        Fresh(t) == \A i \in 1..Len(tags) : tags[i][1] # t[1]
        replaced == [i \in 1..Len(tags) |->
                        IF \E j \in 1..Len(order) : order[j][1] = tags[i][1]
                        THEN order[CHOOSE j \in 1..Len(order) : order[j][1] = tags[i][1]]
                        ELSE tags[i]]
    IN [pkt EXCEPT !.Tags = replaced \o SelectSeq(order, Fresh)]

\* packet.AddTags(tags), the range over tags yielding its entries in order
AddTags(pkt, order) == [pkt EXCEPT !.Tags = @ \o order]

\* What Capture copies from the client under the read lock
ConfigSnapshot ==
    [projectID |-> projectID, release |-> release, environment |-> environment,
     defaultLoggerName |-> defaultLoggerName]

\* A fill that writes the client's values over the ones the packet has
FillFromClientAlways(pkt, s, uuidFails) ==
    IF uuidFails THEN [pkt EXCEPT !.Project = s.projectID]
    ELSE [pkt EXCEPT !.Project = s.projectID, !.Release = s.release,
                     !.Environment = s.environment,
                     !.Logger = IF s.defaultLoggerName # "" THEN s.defaultLoggerName
                                ELSE "root"]

\* Capture after the snapshot s: the default logger name, packet.Init(s.projectID),
\* which returns early when uuid() fails, then release and environment
FillFromClient(pkt, s, uuidFails) ==
    LET named == IF pkt.Logger = "" /\ s.defaultLoggerName # ""
                 THEN [pkt EXCEPT !.Logger = s.defaultLoggerName] ELSE pkt
        inited == [named EXCEPT !.Project = IF @ = "" THEN s.projectID ELSE @,
                                !.Logger = IF @ = "" /\ ~uuidFails THEN "root" ELSE @]
    IN IF uuidFails THEN inited
       ELSE [inited EXCEPT !.Release = IF @ = "" THEN s.release ELSE @,
                           !.Environment = IF @ = "" THEN s.environment ELSE @]

\* Capture: the three tag merges, the snapshot under the read lock,
\* packet.Init and the fill of release and environment; uuid() may fail,
\* and then: ch <- err
InitPacket(r) ==
    /\ r.pc = "init"
    /\ CanRLock
    /\ \E o1 \in Orders(r.ev.captureTags), o2 \in Orders(Tags), o3 \in Orders(contextTags),
          uuidFails \in BOOLEAN :
         LET tagged == AddTags(AddTags(AddTags(r.ev.packet, o1), o2), o3)
             pkt == FillFromClient(tagged, ConfigSnapshot, uuidFails)
             e == [r.ev EXCEPT !.packet = pkt, !.snap = <<ConfigSnapshot, Tags, contextTags>>,
                               !.filled = PacketInit(pkt.Project, uuidFails)
                                             \cup (IF pkt.Logger # "" THEN {"Logger"} ELSE {})]
         IN IF uuidFails
            THEN cl' = BagReplace(cl, r, [pc |-> "initdone",
                                          ev |-> [ChanPush(e, UuidErr) EXCEPT
                                                     !.outcome = "initfail"]])
            ELSE cl' = BagReplace(cl, r, [pc |-> "start", ev |-> e])
    /\ UNCHANGED <<config, queueState, tally, tx, queue, wg, start, workers, waiter, unsent, budget>>

\* A return after a failed Init that leaves the registration in place
InitFailLeak(r) ==
    /\ r.pc = "initdone"
    /\ Return(r, r.ev)
    /\ UNCHANGED <<config, queueState, tally, tx, queue, wg, start, workers, waiter, unsent, budget>>

\* Capture: client.wg.Done() and return after a failed Init
InitFailDone(r) ==
    /\ r.pc = "initdone"
    /\ wg' = wg - 1
    /\ Return(r, [r.ev EXCEPT !.dones = @ + 1])
    /\ UNCHANGED <<config, queueState, tally, tx, queue, start, workers, waiter, unsent, budget>>

\* A lazy start without the Once: every call starts a worker
StartWorkerEveryTime(r) ==
    /\ r.pc = "start"
    /\ start' = TRUE
    /\ workers' = Append(workers, [pc |-> "recv", ev |-> NoEvent])
    /\ cl' = BagReplace(cl, r, [r EXCEPT !.pc = "enqueue"])
    /\ UNCHANGED <<config, queueState, tally, tx, queue, wg, waiter, unsent, budget>>

\* Capture: client.start.Do(func() { go client.worker() })
StartWorker(r) ==
    /\ r.pc = "start"
    /\ IF start
       THEN UNCHANGED <<start, workers>>
       ELSE /\ start' = TRUE
            /\ workers' = Append(workers, [pc |-> "recv", ev |-> NoEvent])
    /\ cl' = BagReplace(cl, r, [r EXCEPT !.pc = "enqueue"])
    /\ UNCHANGED <<config, queueState, tally, tx, queue, wg, waiter, unsent, budget>>

\* An enqueue without the default branch: client.queue <- outgoingPacket
EnqueueBlocking(r) ==
    /\ r.pc = "enqueue"
    /\ QueueHasRoom(queue)
    /\ unsent' = unsent + 1
    /\ tally' = Count({"done"})
    /\ \E recv \in BOOLEAN :
         /\ queue' = Append(queue, [r.ev EXCEPT !.outcome = "enqueued",
                                                !.rank = unsent,
                                                !.returned = TRUE,
                                                !.awaited = recv,
                                                !.queuedAt = <<url, authHeader>>])
         /\ cl' = BagReplace(cl, r, IF recv THEN [pc |-> "recvq", ev |-> NoEvent]
                                    ELSE Idle)
    /\ UNCHANGED <<config, queueState, tx, wg, start, workers, waiter, budget>>

\* Capture: select { case client.queue <- outgoingPacket: ... default: ... }.
\* After a successful send the call returns; a caller that receives on the
\* handle waits for the record that is now in the queue. The send case of a
\* closed channel is ready and panics: the call does not return.
Enqueue(r) ==
    /\ r.pc = "enqueue"
    /\ LET e == [r.ev EXCEPT !.sawFull = (Len(queue) >= MaxQueueBuffer)]
       IN IF queueState # "open"
          THEN /\ cl' = BagReplace(cl, r, [pc |-> "panicked",
                                           ev |-> [r.ev EXCEPT !.outcome = "closedsend"]])
               /\ UNCHANGED <<queue, unsent, tally>>
          ELSE IF QueueHasRoom(queue)
          THEN /\ unsent' = unsent + 1
               /\ tally' = Count({"done"})
               /\ \E recv \in BOOLEAN :
                    /\ queue' = Append(queue, [e EXCEPT !.outcome = "enqueued",
                                                        !.rank = unsent,
                                                        !.returned = TRUE,
                                                        !.awaited = recv,
                                                        !.queuedAt = <<url, authHeader>>])
                    /\ cl' = BagReplace(cl, r, IF recv THEN [pc |-> "recvq", ev |-> NoEvent]
                                               ELSE Idle)
          ELSE /\ cl' = BagReplace(cl, r, [pc |-> "drop",
                                           ev |-> [e EXCEPT !.outcome = "dropped"]])
               /\ UNCHANGED <<queue, unsent, tally>>
    /\ UNCHANGED <<config, queueState, tx, wg, start, workers, waiter, budget>>

\* A default branch that tells no one: no DropHandler call, no error sent
DropSilently(r) ==
    /\ r.pc = "drop"
    /\ cl' = BagReplace(cl, r, [r EXCEPT !.pc = "dropdone"])
    /\ UNCHANGED <<config, queueState, tally, tx, queue, wg, start, workers, waiter, unsent, budget>>

\* Capture, default branch:
\*   if client.DropHandler != nil { client.DropHandler(packet) }
\*   ch <- ErrPacketDropped
Drop(r) ==
    /\ r.pc = "drop"
    /\ Len(r.ev.buf) < ChanCap
    /\ cl' = BagReplace(cl, r,
                [pc |-> "dropdone",
                 ev |-> ChanPush([r.ev EXCEPT !.dropCalls = IF DropHandler THEN @ + 1 ELSE @],
                                 ErrPacketDropped)])
    /\ tally' = Count(IF DropHandler THEN {"dropped", "handled"} ELSE {"dropped"})
    /\ UNCHANGED <<config, queueState, tx, queue, wg, start, workers, waiter, unsent, budget>>

\* Capture, default branch: client.wg.Done(), then return
DropDone(r) ==
    /\ r.pc = "dropdone"
    /\ wg' = wg - 1
    /\ Return(r, [r.ev EXCEPT !.dones = @ + 1])
    /\ tally' = Count({"done"})
    /\ UNCHANGED <<config, queueState, tx, queue, start, workers, waiter, unsent, budget>>

\* The receive on a handle: e after <-ch
Received(e) == [e EXCEPT !.buf = IF @ # <<>> THEN Tail(@) ELSE @, !.awaited = FALSE]

\* <-ch: the receive of an AndWait variant, or of a caller reading Capture's
\* ch, on the handle of a call that was not enqueued
Receive(r) ==
    /\ r.pc = "recv"
    /\ ChanRecv(r.ev) # "blocks"
    /\ cl' = BagReplace(cl, r, Idle)
    /\ UNCHANGED <<config, queueState, tally, tx, queue, wg, start, workers, waiter, unsent, budget>>

\* <-ch on the handle of an enqueued call: the record is with worker w
ReceiveQueued(r, w) ==
    /\ r.pc = "recvq"
    /\ workers[w].ev.awaited
    /\ ChanRecv(workers[w].ev) # "blocks"
    /\ workers' = [workers EXCEPT ![w].ev = Received(@)]
    /\ cl' = BagReplace(cl, r, Idle)
    /\ UNCHANGED <<config, queueState, tally, tx, queue, wg, start, waiter, unsent, budget>>

\* ---------------------------------------------------------------- Wait
\* The handle has been resolved: closed, or a value was sent on it
Resolved(e) == e.closed \/ e.pushed # <<>>

\* History, for a Wait that begins (on) or returns (not on): the handle had
\* been returned and was unresolved when the pending Wait began
MarkPre(e, on) == [e EXCEPT !.pre = on /\ e.returned /\ ~Resolved(e)]

\* The callers, the queue and the workers with every record marked
MarkCallers(b, on) ==
    LET marked(r) == [r EXCEPT !.ev = MarkPre(r.ev, on)]
        image == {marked(r) : r \in DOMAIN b}
    IN [y \in image |-> SumCounts({r \in DOMAIN b : marked(r) = y}, b)]
MarkQueue(q, on) == [k \in 1..Len(q) |-> MarkPre(q[k], on)]
MarkWorkers(ws, on) == [w \in 1..Len(ws) |-> [ws[w] EXCEPT !.ev = MarkPre(ws[w].ev, on)]]

\* Client.Wait is called: client.wg.Wait() begins
WaitCall ==
    /\ waiter = "idle"
    /\ waiter' = "waiting"
    /\ cl' = MarkCallers(cl, TRUE)
    /\ queue' = MarkQueue(queue, TRUE)
    /\ workers' = MarkWorkers(workers, TRUE)
    /\ UNCHANGED <<config, queueState, tally, tx, wg, start, unsent, budget>>

\* client.wg.Wait() returns: the counter is zero
WaitReturn ==
    /\ waiter = "waiting"
    /\ wg = 0
    /\ waiter' = "idle"
    /\ cl' = MarkCallers(cl, FALSE)
    /\ queue' = MarkQueue(queue, FALSE)
    /\ workers' = MarkWorkers(workers, FALSE)
    /\ UNCHANGED <<config, queueState, tally, tx, wg, start, unsent, budget>>

\* ------------------------------------------------------------- setters
SetSampleRate(rate) ==
    /\ CanLock
    /\ IF rate < 0 \/ rate > RateOne
       THEN UNCHANGED sampleRate
       ELSE sampleRate' = rate
    /\ UNCHANGED <<ignoreErrorsRegexp, DropHandler, destination, mu, labels, queue, wg, start,
                   workers, cl, waiter, unsent, budget, queueState, tally, tx>>

\* SetSampleRate in two steps: client.mu.Lock() ...
SetSampleRateLock(rate) ==
    /\ CanLock
    /\ mu' = [mu EXCEPT !.writer = "SetSampleRate", !.arg = rate]
    /\ UNCHANGED <<sampleRate, ignoreErrorsRegexp, DropHandler, destination, labels, queue, wg,
                   start, workers, cl, waiter, unsent, budget, queueState, tally, tx>>

\* ... and the test, the assignment and the deferred Unlock
SetSampleRateUnlock ==
    /\ mu.writer = "SetSampleRate"
    /\ IF mu.arg < 0 \/ mu.arg > RateOne
       THEN UNCHANGED sampleRate
       ELSE sampleRate' = mu.arg
    /\ mu' = MuFree
    /\ UNCHANGED <<ignoreErrorsRegexp, DropHandler, destination, labels, queue, wg, start,
                   workers, cl, waiter, unsent, budget, queueState, tally, tx>>

\* History: a call still before its last exclusion test stays covered only
\* if the new pattern matches its message too
StillCovered(re, r) ==
    IF r.pc \in {"wexclude", "sample", "exclude"}
    THEN [r EXCEPT !.ev.covered = @ /\ MatchString(re, r.ev.msg)]
    ELSE r

CoverCallers(b, re) ==
    LET image == {StillCovered(re, r) : r \in DOMAIN b}
    IN [y \in image |-> SumCounts({r \in DOMAIN b : StillCovered(re, r) = y}, b)]

SetIgnoreErrors(errs) ==
    LET re == [nil |-> FALSE, alts |-> errs]
    IN /\ CanLock
       /\ ignoreErrorsRegexp' = re
       /\ cl' = CoverCallers(cl, re)
       /\ UNCHANGED <<sampleRate, DropHandler, destination, mu, labels, queue, wg, start, workers,
                      waiter, unsent, budget, queueState, tally, tx>>

\* Client.SetDSN(dsn); the parse and the assignments are made under the
\* write lock
SetDSN(dsn) ==
    /\ dsn.text # "" => CanLock
    /\ LET d == AfterSetDSN(dsn, Destination(url, authHeader, projectID, dsnErr))
       IN /\ url' = d.url
          /\ authHeader' = d.authHeader
          /\ projectID' = d.projectID
          /\ dsnErr' = d.err
    /\ UNCHANGED <<sampleRate, ignoreErrorsRegexp, DropHandler, mu, labels, queue, wg, start, workers,
                   cl, waiter, unsent, budget, queueState, tally, tx>>

\* Client.SetRelease, SetEnvironment, SetDefaultLoggerName
SetRelease(v) ==
    /\ CanLock
    /\ release' = v
    /\ UNCHANGED <<sampleRate, ignoreErrorsRegexp, DropHandler, destination, mu, environment,
                   defaultLoggerName, Tags, contextTags, queue, wg, start, workers, cl,
                   waiter, unsent, budget, queueState, tally, tx>>

SetEnvironment(v) ==
    /\ CanLock
    /\ environment' = v
    /\ UNCHANGED <<sampleRate, ignoreErrorsRegexp, DropHandler, destination, mu, release,
                   defaultLoggerName, Tags, contextTags, queue, wg, start, workers, cl,
                   waiter, unsent, budget, queueState, tally, tx>>

SetDefaultLoggerName(v) ==
    /\ CanLock
    /\ defaultLoggerName' = v
    /\ UNCHANGED <<sampleRate, ignoreErrorsRegexp, DropHandler, destination, mu, release,
                   environment, Tags, contextTags, queue, wg, start, workers, cl,
                   waiter, unsent, budget, queueState, tally, tx>>

\* context.setTags: the entries of t, and those of c whose key t lacks
setTags(c, t) == {p \in c : \A q \in t : q[1] # p[1]} \cup t

\* Client.SetTagsContext
SetTagsContext(t) ==
    /\ CanLock
    /\ contextTags' = setTags(contextTags, t)
    /\ UNCHANGED <<sampleRate, ignoreErrorsRegexp, DropHandler, destination, mu, release,
                   environment, defaultLoggerName, Tags, queue, wg, start, workers, cl,
                   waiter, unsent, budget, queueState, tally, tx>>

\* Client.ClearContext
ClearContext ==
    /\ CanLock
    /\ contextTags' = NoTags
    /\ UNCHANGED <<sampleRate, ignoreErrorsRegexp, DropHandler, destination, mu, release,
                   environment, defaultLoggerName, Tags, queue, wg, start, workers, cl,
                   waiter, unsent, budget, queueState, tally, tx>>

\* Client.Close: close(client.queue); the close of a closed channel panics
\* in the caller of Close
Close ==
    /\ queueState \in {"open", "closed"}
    /\ queueState' = IF queueState = "open" THEN "closed" ELSE "fault"
    /\ UNCHANGED <<config, tally, tx, queue, wg, start, workers, cl, waiter, unsent, budget>>

\* One call of HTTPTransport.Send by a user of the transport
TransportSend ==
    /\ tx.out = <<>>
    /\ tx' = [tx EXCEPT !.out = <<HTTPSend(tx.url, <<"k1">>, tx.pkt, tx.net)>>]
    /\ UNCHANGED <<config, queueState, tally, queue, wg, start, workers, cl, waiter,
                   unsent, budget>>

\* -------------------------------------------------------------- worker
\* A worker that takes the newest unit of the queue
WorkerRecvNewest(w) ==
    /\ workers[w].pc = "recv"
    /\ queue # <<>>
    /\ workers' = [workers EXCEPT ![w] = [pc |-> "snap", ev |-> queue[Len(queue)]]]
    /\ queue' = SubSeq(queue, 1, Len(queue) - 1)
    /\ tally' = Count({"taken"})
    /\ UNCHANGED <<config, queueState, tx, wg, start, cl, waiter, unsent, budget>>

\* for outgoingPacket := range client.queue
WorkerRecv(w) ==
    /\ workers[w].pc = "recv"
    /\ queue # <<>>
    /\ workers' = [workers EXCEPT ![w] = [pc |-> "snap", ev |-> Head(queue)]]
    /\ queue' = Tail(queue)
    /\ tally' = Count({"taken"})
    /\ UNCHANGED <<config, queueState, tx, wg, start, cl, waiter, unsent, budget>>

\* A range loop that ends as soon as the queue is closed
WorkerExitEarly(w) ==
    /\ workers[w].pc = "recv"
    /\ queueState # "open"
    /\ workers' = [workers EXCEPT ![w].pc = "exited"]
    /\ UNCHANGED <<config, queueState, tally, tx, queue, wg, start, cl, waiter, unsent, budget>>

\* The range loop ends: the queue is closed and drained
WorkerExit(w) ==
    /\ workers[w].pc = "recv"
    /\ queue = <<>>
    /\ queueState # "open"
    /\ workers' = [workers EXCEPT ![w].pc = "exited"]
    /\ UNCHANGED <<config, queueState, tally, tx, queue, wg, start, cl, waiter, unsent, budget>>

\* A snapshot that is the configuration the event was enqueued under
SnapshotAtEnqueue(e) == e.queuedAt

\* url, authHeader := client.url, client.authHeader, under the read lock
Snapshot(e) == <<url, authHeader>>

\* A worker that keeps the read lock while Send runs
WorkerSendHoldingLock(w) ==
    /\ workers[w].pc = "snap"
    /\ CanRLock
    /\ mu' = [mu EXCEPT !.readers = @ + 1]
    /\ workers' = [workers EXCEPT ![w] = [pc |-> "send",
                                          ev |-> [@.ev EXCEPT !.sends = @ + 1,
                                                              !.inOrder = (@ /\ workers[w].ev.rank = 0),
                                                              !.sentWith = <<url, authHeader>>]]]
    /\ UNCHANGED <<sampleRate, ignoreErrorsRegexp, DropHandler, destination, labels, queueState,
                   tally, tx, queue, wg, start, cl, waiter, unsent, budget>>

\* The snapshot of url and authHeader under the read lock, then the call of
\* client.Transport.Send
WorkerSend(w) ==
    /\ workers[w].pc = "snap"
    /\ CanRLock
    /\ workers' = [workers EXCEPT ![w] = [pc |-> "send",
                                          ev |-> [@.ev EXCEPT !.sends = @ + 1,
                                                              !.inOrder = (@ /\ workers[w].ev.rank = 0),
                                                              !.sentWith = Snapshot(workers[w].ev)]]]
    /\ UNCHANGED <<config, queueState, tally, tx, queue, wg, start, cl, waiter, unsent, budget>>

\* History: the enqueued events that were behind the one of rank k move up
MoveUp(k, e) ==
    IF e.outcome = "enqueued" /\ e.rank > k THEN [e EXCEPT !.rank = @ - 1] ELSE e

\* Transport.Send, called with the snapshot, returns: outgoingPacket.ch <- res
WorkerPush(w) ==
    /\ workers[w].pc = "send"
    /\ Len(workers[w].ev.buf) < ChanCap
    /\ LET k == workers[w].ev.rank
           with == workers[w].ev.sentWith
       IN /\ \E net \in PipelineNets :
               LET out == HTTPSend(with[1], with[2], SmallPacket, net)
               IN workers' = [v \in 1..Len(workers) |->
                                 IF v = w
                                 THEN [pc |-> "done",
                                       ev |-> [ChanPush(workers[w].ev, out.err) EXCEPT
                                                  !.sendRes = Append(@, out.err),
                                                  !.wire = Append(@, [marshalled |-> out.marshalled,
                                                                      requests |-> out.requests])]]
                                 ELSE [workers[v] EXCEPT !.ev = MoveUp(k, @)]]
          /\ queue' = [j \in 1..Len(queue) |-> MoveUp(k, queue[j])]
    /\ unsent' = unsent - 1
    /\ tally' = Count({"sent"})
    /\ UNCHANGED <<config, queueState, tx, wg, start, cl, waiter, budget>>

\* The record of an event the worker is through with
Retired(e) ==
    [Forget(e) EXCEPT !.dones = @ + 1, !.queuedAt = <<>>, !.sentWith = <<>>, !.wire = <<>>]

\* A worker that sends again after a failed Send
WorkerDoneRetry(w) ==
    /\ workers[w].pc = "done"
    /\ workers[w].ev.sendRes # <<>>
    /\ IF workers[w].ev.sendRes[Len(workers[w].ev.sendRes)] # NilErr /\ workers[w].ev.sends < 2
       THEN /\ workers' = [workers EXCEPT ![w].pc = "send", ![w].ev.sends = @ + 1,
                                           ![w].ev.buf = <<>>]
            /\ unsent' = unsent + 1
            /\ UNCHANGED <<wg, cl>>
       ELSE /\ wg' = wg - 1
            /\ workers' = [workers EXCEPT ![w] = [pc |-> "recv", ev |-> NoEvent]]
            /\ UNCHANGED unsent
            /\ IF workers[w].ev.awaited
               THEN \E r \in BagToSet(cl) :
                      /\ r.pc = "recvq"
                      /\ cl' = BagReplace(cl, r, [pc |-> "recv", ev |-> Retired(workers[w].ev)])
               ELSE UNCHANGED cl
    /\ UNCHANGED <<config, queueState, tally, tx, queue, start, waiter, budget>>

\* client.wg.Done(), back to the receive. The worker is through with the
\* record, which stays with the caller still receiving on its handle, if any.
WorkerDone(w) ==
    /\ workers[w].pc = "done"
    /\ wg' = wg - 1
    /\ workers' = [workers EXCEPT ![w] = [pc |-> "recv", ev |-> NoEvent]]
    /\ IF workers[w].ev.awaited
       THEN \E r \in BagToSet(cl) :
              /\ r.pc = "recvq"
              /\ cl' = BagReplace(cl, r, [pc |-> "recv", ev |-> Retired(workers[w].ev)])
       ELSE UNCHANGED cl
    /\ UNCHANGED <<config, queueState, tally, tx, queue, start, waiter, unsent, budget>>

\* The steps of one caller
CallerStep(r) ==
    \/ Call(r)
    \/ WrapperExclude(r)
    \/ Sample(r)
    \/ Exclude(r)
    \/ Add(r)
    \/ InitPacket(r)
    \/ InitFailDone(r)
    \/ StartWorker(r)
    \/ Enqueue(r)
    \/ Drop(r)
    \/ DropDone(r)
    \/ Receive(r)
    \/ \E w \in 1..Len(workers) : ReceiveQueued(r, w)

\* The steps of one worker
WorkerStep(w) ==
    \/ WorkerRecv(w)
    \/ WorkerSend(w)
    \/ WorkerPush(w)
    \/ WorkerDone(w)

\* The steps of the callers and of the worker
PipelineNext ==
    \/ \E r \in BagToSet(cl) : Call(r)
    \/ \E r \in BagToSet(cl) : WrapperExclude(r)
    \/ \E r \in BagToSet(cl) : Sample(r)
    \/ \E r \in BagToSet(cl) : Exclude(r)
    \/ \E r \in BagToSet(cl) : Add(r)
    \/ \E r \in BagToSet(cl) : InitPacket(r)
    \/ \E r \in BagToSet(cl) : InitFailDone(r)
    \/ \E r \in BagToSet(cl) : StartWorker(r)
    \/ \E r \in BagToSet(cl) : Enqueue(r)
    \/ \E r \in BagToSet(cl) : Drop(r)
    \/ \E r \in BagToSet(cl) : DropDone(r)
    \/ \E r \in BagToSet(cl) : Receive(r)
    \/ \E r \in BagToSet(cl), w \in 1..Len(workers) : ReceiveQueued(r, w)
    \/ \E w \in 1..Len(workers) : WorkerRecv(w)
    \/ \E w \in 1..Len(workers) : WorkerSend(w)
    \/ \E w \in 1..Len(workers) : WorkerPush(w)
    \/ \E w \in 1..Len(workers) : WorkerDone(w)

Next ==
    \/ PipelineNext
    \/ WaitCall
    \/ WaitReturn

ConfigNext ==
    \/ Next
    \/ \E rate \in RateInputs : SetSampleRate(rate)
    \/ \E errs \in ErrLists : SetIgnoreErrors(errs)

\* Concurrent callers, the worker and a waiter, under the configuration the
\* client is constructed with
Spec == Init /\ [][Next]_vars

\* The smaller start, the DropHandler nil as newClient leaves it
ConfigInit == FewInit /\ ~DropHandler

\* The same steps with the configuration being changed at any time, from
\* the smaller start
ConfigSpec == ConfigInit /\ [][ConfigNext]_vars

\* The steps of Spec from the smaller start, with a scheduler that runs the
\* worker goroutine as long as it has a step to take and a Transport.Send
\* that returns
FairSpec == FewInit /\ [][Next]_vars /\ WF_vars(\E w \in 1..Len(workers) : WorkerStep(w))

\* A client constructed without a destination (New(""), no SENTRY_DSN),
\* its DropHandler nil as newClient leaves it
DsnInit ==
    /\ NewClient(FewCallers, DsnEvents, NoDsn)
    /\ Tags = NoTags
    /\ ~DropHandler
    /\ tally = NoTally
    /\ tx = NoTx

DsnNext ==
    \/ PipelineNext
    \/ \E dsn \in GoodDsns : SetDSN(dsn)

\* The steps of the callers and of the worker on a client that starts
\* without a destination and is given one, and another, at any time
DsnSpec == DsnInit /\ [][DsnNext]_vars

SetterNext ==
    \/ \E dsn \in DsnInputs : SetDSN(dsn)
    \/ \E rate \in RateInputs : SetSampleRate(rate)
    \/ \E errs \in ErrLists : SetIgnoreErrors(errs)

\* The configuration setters alone, with every connection string, on a
\* client that starts without a destination
SetterSpec == DsnInit /\ [][SetterNext]_vars

\* A client constructed with a destination, its enqueue attempts tallied
BurstInit ==
    /\ NewClient(FewCallers, FewEvents, Dsn1)
    /\ Tags = NoTags
    /\ tally = [NoTally EXCEPT !.on = TRUE]
    /\ tx = NoTx

\* The steps of Spec with the tallies kept
BurstSpec == BurstInit /\ [][Next]_vars

CloseNext ==
    \/ Next
    \/ Close
    \/ \E w \in 1..Len(workers) : WorkerExit(w)

\* The steps of Spec from the smaller start, with Close called at any time
CloseSpec == FewInit /\ [][CloseNext]_vars

\* The steps of Capture, after the call, of the receive on its handle and
\* of the worker, for calls that find room in the queue
CaptureNext ==
    \/ \E r \in BagToSet(cl) : Sample(r)
    \/ \E r \in BagToSet(cl) : Exclude(r)
    \/ \E r \in BagToSet(cl) : Add(r)
    \/ \E r \in BagToSet(cl) : InitPacket(r)
    \/ \E r \in BagToSet(cl) : InitFailDone(r)
    \/ \E r \in BagToSet(cl) : StartWorker(r)
    \/ \E r \in BagToSet(cl) : Enqueue(r)
    \/ \E r \in BagToSet(cl) : Receive(r)
    \/ \E r \in BagToSet(cl), w \in 1..Len(workers) : ReceiveQueued(r, w)
    \/ \E w \in 1..Len(workers) : WorkerRecv(w)
    \/ \E w \in 1..Len(workers) : WorkerSend(w)
    \/ \E w \in 1..Len(workers) : WorkerPush(w)
    \/ \E w \in 1..Len(workers) : WorkerDone(w)

\* A client with a destination and no default tags, its DropHandler nil,
\* and callers that make two calls
PairInit ==
    /\ NewClient(FewCallers, PairEvents, Dsn1)
    /\ Tags = NoTags
    /\ ~DropHandler
    /\ tally = NoTally
    /\ tx = NoTx

CloseFairNext ==
    \/ CaptureNext
    \/ \E r \in BagToSet(cl) : CapturePacket(r, NewPacket, NoTags)
    \/ Close
    \/ \E w \in 1..Len(workers) : WorkerExit(w)

\* The steps of Capture and of the worker with Close called at any time,
\* under a scheduler that runs the worker goroutine as long as it has a
\* step to take, the end of its loop included, and a Transport.Send that
\* returns
CloseFairSpec ==
    /\ PairInit
    /\ [][CloseFairNext]_vars
    /\ WF_vars(\E w \in 1..Len(workers) : WorkerStep(w) \/ WorkerExit(w))

LockNext ==
    \/ CaptureNext
    \/ \E r \in BagToSet(cl) : CapturePacket(r, NewPacket, NoTags)
    \/ \E rate \in RateInputs : SetSampleRateLock(rate)
    \/ SetSampleRateUnlock
    \/ \E dsn \in {DsnMoved} : SetDSN(dsn)

\* The steps of Capture and of the worker with SetSampleRate entering and
\* leaving its critical section in two steps, and SetDSN
LockSpec == PairInit /\ [][LockNext]_vars

\* A packet whose four fields the caller has set, and one with none set
PresetPacket ==
    [Project |-> "pp", Release |-> "pr", Environment |-> "pe", Logger |-> "pl", Tags |-> <<>>]
LabelPackets == {NewPacket, PresetPacket}

\* A client with a destination and no default tags, its DropHandler nil
LabelInit ==
    /\ NewClient(FewCallers, LabelEvents, Dsn1)
    /\ Tags = NoTags
    /\ ~DropHandler
    /\ tally = NoTally
    /\ tx = NoTx

LabelNext ==
    \/ CaptureNext
    \/ \E r \in BagToSet(cl), pkt \in LabelPackets : CapturePacket(r, pkt, NoTags)
    \/ \E v \in {"r2"} : SetRelease(v)
    \/ \E v \in {"e2"} : SetEnvironment(v)
    \/ \E v \in {"l2"} : SetDefaultLoggerName(v)
    \/ \E dsn \in {Dsn2} : SetDSN(dsn)

\* The steps of the callers and of the worker, with callers that hand in
\* packets of their own, while the release, the environment, the default
\* logger name and the project of the client are set at any time
LabelSpec == LabelInit /\ [][LabelNext]_vars

\* A packet that comes with a tag of its own, and one without tags
TaggedPacket == [NewPacket EXCEPT !.Tags = <<<<"k", "packet">>>>]
TagPackets == {NewPacket, TaggedPacket}
\* The tags of a call, the default tags of the client and the tags added to
\* its context: the key k is in all of them
CallTags == {<<"k", "call">>, <<"c", "1">>}
DefaultTags == {<<"k", "client">>}
ContextTagMaps == {{<<"k", "context">>}, {<<"x", "1">>}}

\* A client made by NewWithTags, its DropHandler nil
TagInit ==
    /\ NewClient(FewCallers, LabelEvents, Dsn1)
    /\ Tags = DefaultTags
    /\ ~DropHandler
    /\ tally = NoTally
    /\ tx = NoTx

TagNext ==
    \/ CaptureNext
    \/ \E r \in BagToSet(cl), pkt \in TagPackets, tags \in {NoTags, CallTags} :
          CapturePacket(r, pkt, tags)
    \/ \E t \in ContextTagMaps : SetTagsContext(t)
    \/ ClearContext

\* The steps of the callers and of the worker, with callers that hand in
\* packets and tags of their own, on a client with default tags whose
\* context tags are set and cleared at any time
TagSpec == TagInit /\ [][TagNext]_vars

\* One call of HTTPTransport.Send for every URL, packet and network outcome
TransportInit ==
    /\ NewClient(FewCallers, FewEvents, Dsn1)
    /\ Tags = NoTags
    /\ tally = NoTally
    /\ tx \in [url : Urls, pkt : Packets, net : Nets, out : {<<>>}]

TransportSpec == TransportInit /\ [][TransportSend]_vars

\* ---------------------------------------------------------------- claims
Callers == BagToSet(cl)
Workers == 1..Len(workers)
\* The positions inside Capture and the wrappers
InCapture(r) ==
    r.pc \in {"wexclude", "sample", "exclude", "add", "init", "initdone", "start",
              "enqueue", "drop", "dropdone"}
Sending == {w \in Workers : workers[w].pc = "send"}

\* C1: Capture never blocks the submitting caller. Whatever the queue holds
\* and wherever the worker is, a caller inside a capture call can take its
\* next step at once; it waits neither for the worker, nor for queue space,
\* nor for another caller.
C1_CaptureNeverBlocks ==
    \A r \in Callers : InCapture(r) => ENABLED CallerStep(r)

\* A caller is at the select with the queue full and the worker inside
\* Transport.Send
C1_FullQueueStalledWorker ==
    \E r \in Callers :
        /\ r.pc = "enqueue"
        /\ Len(queue) = MaxQueueBuffer
        /\ \E w \in Workers : workers[w].pc = "send"

\* C2: a capture that finds the queue holding MaxQueueBuffer units at the
\* enqueue step takes the drop path: the DropHandler, if set, is called
\* exactly once before the call returns, the handle carries ErrPacketDropped
\* and nothing else, the registration is retired, the event is never in the
\* queue nor handed to Transport.Send; and the queue never holds more than
\* MaxQueueBuffer units.
C2_DropOnFull ==
    /\ Len(queue) <= MaxQueueBuffer
    /\ \A e \in Range(queue) \cup {workers[w].ev : w \in Workers} : ~e.sawFull
    /\ \A r \in Callers :
         r.ev.sawFull =>
            /\ r.pc \in {"drop", "dropdone", "recv"}
            /\ r.ev.outcome = "dropped"
            /\ r.ev.sends = 0
            /\ r.ev.adds = 1
            /\ r.pc # "drop" =>
                  /\ r.ev.dropCalls = (IF DropHandler THEN 1 ELSE 0)
                  /\ r.ev.pushed = <<ErrPacketDropped>>
            /\ r.pc = "recv" =>
                  /\ r.ev.dones = 1
                  /\ ChanRecv(r.ev) = ErrPacketDropped

\* A dropped capture has returned: the handler ran once, the registration is
\* retired
C2_Dropped ==
    \E r \in Callers :
        /\ r.pc = "recv"
        /\ r.ev.sawFull
        /\ r.ev.dropCalls = 1
        /\ r.ev.dones = 1

\* C3: for every enqueued event the worker calls Transport.Send exactly
\* once: never twice, failed or not, and, the worker being scheduled, never
\* zero times (the enqueued events whose Send has not returned always run
\* out). What that call returned is the one value sent on the event's
\* channel.
C3_ExactlyOneSend ==
    /\ [](/\ \A e \in LiveEvents :
                 /\ e.sends <= 1
                 /\ e.outcome # "enqueued" => e.sends = 0
                 /\ Len(e.sendRes) <= e.sends
                 /\ e.outcome = "enqueued" => e.pushed = e.sendRes
          /\ \A w \in Workers :
                 workers[w].pc = "done" =>
                    workers[w].ev.sends = 1 /\ Len(workers[w].ev.sendRes) = 1
          /\ \A r \in Callers :
                 r.pc = "recv" /\ r.ev.outcome = "enqueued" =>
                    r.ev.sends = 1 /\ Len(r.ev.pushed) = 1)
    /\ (unsent > 0 ~> unsent = 0)

\* A failed delivery has been reported on the handle and the worker is back
\* at the queue
C3_FailureReported ==
    \E r \in Callers :
        /\ r.pc = "recv"
        /\ r.ev.outcome = "enqueued"
        /\ r.ev.sendRes = <<"sendErr">>
        /\ r.ev.dones = 1
        /\ \A w \in Workers : workers[w].pc = "recv"

C5_OneWorker ==
    /\ Len(workers) <= 1
    /\ Cardinality(Sending) <= 1
    /\ start <=> Len(workers) = 1
    /\ (queue # <<>> \/ unsent > 0) => start
    /\ \A r \in Callers : r.pc \in {"enqueue", "drop", "dropdone"} => start

\* One caller is past the lazy start and another is about to go through it
C5_SecondThroughStart ==
    /\ Len(workers) = 1
    /\ \E r1, r2 \in Callers : r1.pc = "enqueue" /\ r2.pc = "start"

\* C6: Wait returns only when every event whose capture call had returned
\* before Wait was called is in a terminal state: at the step at which Wait
\* returns, no handle that was returned and unresolved when Wait began is
\* still unresolved.
C6_WaitCoversReturned ==
    [][(waiter = "waiting" /\ waiter' = "idle") =>
          \A e \in LiveEvents : e.pre => Resolved(e)]_vars

\* C7: every handle a capture call returns resolves: on the short-circuit
\* paths it is closed or holds a value when the call returns, so a caller
\* receiving on a handle whose call was not enqueued, or whose delivery is
\* over, gets its value at once.
C7_ReturnedHandleResolved ==
    \A r \in Callers : r.pc = "recv" => ChanRecv(r.ev) # "blocks"

\* The record of a Capture call made with a nil packet on a client that is
\* not nil
NilEventCall(e) == e.msg = NoArg /\ e.outcome \notin {"none", "noarg", "nilclient"}

C9_NilClientNoOp ==
    \A r \in Callers :
        /\ r.pc # "panicked"
        /\ r.ev.outcome = "nilclient" =>
              r.ev.closed /\ r.ev.pushed = <<>> /\ r.ev.adds = 0

\* C10: while an exclusion pattern matching its message is configured, a
\* capture, through Capture or a wrapper, is never registered as outstanding
\* work, never enqueued, never handed to Transport.Send, never given to the
\* DropHandler, and no error is sent on its handle.
C10_ExcludedNeverSent ==
    /\ \A e \in Range(queue) \cup {workers[w].ev : w \in Workers} : ~e.covered
    /\ \A r \in Callers :
         r.ev.covered =>
            /\ r.pc \in {"wexclude", "sample", "exclude", "recv"}
            /\ r.ev.outcome \in {"", "excluded", "sampled"}
            /\ r.ev.adds = 0
            /\ r.ev.sends = 0
            /\ r.ev.dropCalls = 0
            /\ r.ev.pushed = <<>>

\* A capture whose message the pattern matched was stopped at Capture's own
\* exclusion gate
C10_Excluded ==
    \E r \in Callers :
        /\ r.pc = "recv"
        /\ r.ev.covered
        /\ r.ev.outcome = "excluded"
        /\ ~r.ev.closed

\* C11: the sampling gate skips a capture exactly when the rate it read is
\* below 1.0 and the draw it made exceeds that rate; with rate 1.0 nothing is
\* skipped. A skipped capture is silent: not registered, not enqueued, not
\* sent, not given to the DropHandler, no value on its handle.
C11_SamplingGate ==
    /\ \A e \in Range(queue) \cup {workers[w].ev : w \in Workers} : e.outcome # "sampled"
    /\ \A r \in Callers :
         /\ r.ev.outcome = "sampled" => r.ev.gateRate # NoDraw
         /\ r.ev.gateRate # NoDraw =>
               /\ r.ev.outcome = "sampled" <=>
                     (r.ev.gateRate < RateOne /\ r.ev.gateDraw > r.ev.gateRate)
               /\ r.ev.gateRate = RateOne => r.ev.outcome # "sampled"
         /\ r.ev.outcome = "sampled" =>
               /\ r.pc = "recv"
               /\ r.ev.adds = 0
               /\ r.ev.sends = 0
               /\ r.ev.dropCalls = 0
               /\ r.ev.pushed = <<>>

\* One capture was skipped by a draw above the rate
C11_Skipped ==
    \E r \in Callers :
        /\ r.ev.outcome = "sampled"
        /\ r.ev.gateRate < RateOne
        /\ r.ev.gateDraw > r.ev.gateRate

\* The request of the Send call under observation, if it made one
TxRequests == IF tx.out = <<>> THEN <<>> ELSE tx.out[1].requests

\* C16: the encoder compresses exactly when the JSON payload is longer
\* than 1000 bytes: the body of a request is raw JSON tagged
\* application/json for a payload of 1000 bytes or fewer, and deflated and
\* base64-encoded, tagged application/octet-stream, for 1001 bytes or more.
C16_CompressAboveThreshold ==
    TxRequests # <<>> =>
        LET req == TxRequests[1]
        IN /\ tx.pkt.len <= 1000 =>
                 req.body = "json" /\ req.contentType = "application/json"
           /\ tx.pkt.len >= 1001 =>
                 req.body = "base64(zlib)" /\ req.contentType = "application/octet-stream"

\* A payload of exactly 1000 bytes went out raw
C16_AtThreshold ==
    /\ tx.pkt.len = 1000
    /\ TxRequests # <<>>
    /\ TxRequests[1].body = "json"

\* C17: for a destination that is not empty, Send returns a failure for
\* every response whose status is not a 2xx code and nil for every response
\* whose status is a 2xx code.
C17_StatusDecides ==
    (TxRequests # <<>> /\ ~tx.net.doErr) =>
        (tx.out[1].err = NilErr <=> tx.net.status \in 200..299)

\* The connection string carries no credentials, no project identifier
NoCredentials(dsn) == dsn.user = <<>>
NoProject(dsn) == dsn.path = <<>> \/ dsn.path[Len(dsn.path)] = ""

\* C18: SetDSN with a connection string that is not empty (and parses)
\* returns ErrMissingUser when the string carries no credentials and
\* ErrMissingProjectID when it carries credentials but no project
\* identifier, whatever the destination and project of the client were; it
\* returns nil only when the string supplies both.
C18_SetDSNErrors ==
    [][\A dsn \in DsnInputs :
          (dsn.text = "uri" /\ SetDSN(dsn)) =>
             /\ NoCredentials(dsn) => dsnErr' = ErrMissingUser
             /\ (~NoCredentials(dsn) /\ NoProject(dsn)) => dsnErr' = ErrMissingProjectID
             /\ dsnErr' = NilErr => (~NoCredentials(dsn) /\ ~NoProject(dsn))]_vars

\* A url and an authHeader that one SetDSN call set, or both still empty
OnePair(pair) ==
    \/ pair = <<NoUrl, NoAuth>>
    \/ \E dsn \in DsnInputs : pair[1] # NoUrl /\ pair[1][1] = dsn.host /\ pair[2] = dsn.user

\* C20: for each delivery the worker uses the url and the authHeader that
\* are current when it takes its snapshot, just before Send is called, as
\* one pair: a SetDSN that completed after the event was enqueued decides
\* both, Send is called with the snapshot and every request carries it, and
\* the two are never from two different SetDSN calls.
C20_CoherentSnapshot ==
    /\ [](/\ OnePair(<<url, authHeader>>)
          /\ \A w \in Workers :
                workers[w].pc \in {"send", "done"} =>
                   LET e == workers[w].ev
                   IN /\ e.sentWith # <<>>
                      /\ OnePair(e.sentWith)
                      /\ \A k \in 1..Len(e.wire) :
                            \A q \in Range(e.wire[k].requests) :
                                <<q.url, q.auth>> = e.sentWith)
    /\ [][\A w \in Workers :
            (workers[w].pc = "snap" /\ w \in 1..Len(workers') /\ workers'[w].pc = "send") =>
                workers'[w].ev.sentWith = <<url, authHeader>>]_vars

\* An event enqueued under one destination was delivered to the one set
\* while it waited in the queue
C20_Reconfigured ==
    \E w \in Workers :
        /\ workers[w].pc = "done"
        /\ workers[w].ev.queuedAt[1] # NoUrl
        /\ workers[w].ev.sentWith # workers[w].ev.queuedAt
        /\ workers[w].ev.wire[1].requests # <<>>
        /\ workers[w].ev.wire[1].requests[1].url = workers[w].ev.sentWith[1]

\* C13: Send called with an empty URL returns nil without marshalling the
\* packet and without a request; the handle of an event delivered while the
\* client has no destination carries nil and nothing else, which is what a
\* receive on it yields.
C13_EmptyUrlNoOp ==
    \A w \in Workers :
        LET e == workers[w].ev
        IN (workers[w].pc = "done" /\ e.sentWith[1] = NoUrl) =>
            /\ e.sendRes = <<NilErr>>
            /\ e.pushed = <<NilErr>>
            /\ e.wire = <<[marshalled |-> FALSE, requests |-> <<>>]>>
            /\ e.buf # <<>> => ChanRecv(e) = NilErr

\* An event was enqueued and delivered on a client without destination:
\* the caller receiving on its handle is about to get nil
C13_NoDestinationDelivered ==
    \E w \in Workers :
        /\ workers[w].pc = "done"
        /\ workers[w].ev.awaited
        /\ workers[w].ev.queuedAt = <<NoUrl, NoAuth>>
        /\ workers[w].ev.sentWith = <<NoUrl, NoAuth>>
        /\ workers[w].ev.sends = 1
        /\ workers[w].ev.buf = <<NilErr>>

\* C12: whenever the worker calls Transport.Send for an event, and whenever
\* an event is reported as dropped or failed on its handle, the event's
\* identity, project, timestamp, level and logger are all filled, whatever
\* destination the client has or lacks.
C12_RequiredFieldsFilled ==
    /\ \A w \in Workers :
          workers[w].pc \in {"send", "done"} => workers[w].ev.filled = RequiredFields
    /\ \A e \in LiveEvents :
          (\E k \in 1..Len(e.pushed) : e.pushed[k] # NilErr) => e.filled = RequiredFields

NilClientFault(r) == r.pc = "panicked" /\ r.ev.outcome = "fault"

\* C15: a capture call on a client never panics, whatever Capture, Wait
\* and Close calls it is interleaved with: it returns and reports a failure
\* only on its handle.
C15_CaptureNeverPanics ==
    \A r \in Callers : r.pc = "panicked" => NilClientFault(r)

\* The workers that hold a dequeued event
InFlight == {w \in Workers : workers[w].pc \in {"snap", "send", "done"}}

\* C19: the WaitGroup counter is raised once for each event that passes the
\* nil, sampling and exclusion gates, before anything resolves its handle,
\* and lowered once for it, by the failed-Init path, the drop path or the
\* worker after Send; it is never negative, and whenever no capture call is
\* in progress it equals the units in the queue plus those with the worker.
C19_WgAccounting ==
    /\ wg >= 0
    /\ \A e \in LiveEvents :
          /\ e.adds <= 1
          /\ e.dones <= e.adds
          /\ (e.pushed # <<>> \/ e.sends > 0) => e.adds = 1
          /\ e.adds = 1 => ~e.closed
    /\ \A e \in Range(queue) \cup {workers[w].ev : w \in InFlight} :
          e.adds = 1 /\ e.dones = 0
    /\ \A r \in Callers :
          /\ r.pc \in {"wexclude", "sample", "exclude", "add"} => r.ev.adds = 0
          /\ r.pc \in {"init", "initdone", "start", "enqueue", "drop", "dropdone"} =>
                r.ev.adds = 1 /\ r.ev.dones = 0
          /\ (~InCapture(r) /\ r.ev.adds = 1) => r.ev.dones = 1
    /\ (\A r \in Callers : ~InCapture(r)) => wg = Len(queue) + Cardinality(InFlight)

\* No capture call is in progress; one unit waits in the queue, one is with
\* the worker, and a call whose Init failed has returned, retired
C19_Balanced ==
    /\ \A r \in Callers : ~InCapture(r)
    /\ Len(queue) = 1
    /\ Cardinality(InFlight) = 1
    /\ wg = 2
    /\ \E r \in Callers :
          r.pc = "recv" /\ r.ev.outcome = "initfail" /\ r.ev.adds = 1 /\ r.ev.dones = 1

\* C25: a result channel gets at most one value over its lifetime and is
\* never both closed and written. Its capacity of one makes every send on it
\* go through at once: the worker's push of what Send returned, and the
\* retiring step after it, never wait for a caller to read the handle.
C25_OneValueNeverBlocks ==
    /\ \A e \in LiveEvents :
          /\ Len(e.pushed) <= 1
          /\ Len(e.buf) <= ChanCap
          /\ ~(e.closed /\ e.pushed # <<>>)
    /\ \A r \in Callers : r.pc = "drop" => ENABLED Drop(r)
    /\ \A w \in Workers :
          /\ workers[w].pc = "send" => ENABLED WorkerPush(w)
          /\ workers[w].pc = "done" => ENABLED WorkerDone(w)

\* The result of a delivery sits unread on the handle of a caller that let
\* it go, while the next event waits in the queue
C25_UnreadResult ==
    \E w \in Workers :
        /\ workers[w].pc = "done"
        /\ ~workers[w].ev.awaited
        /\ Len(workers[w].ev.buf) = 1
        /\ queue # <<>>

\* C23: the worker receives until the queue is closed and then ends. It
\* ends only after Close and only with the queue drained and every enqueued
\* event delivered, its result sent; once the queue is closed the worker,
\* being scheduled, does end; without Close it never does.
C23_WorkerEndsAfterClose ==
    /\ [](\A w \in Workers :
             workers[w].pc = "exited" =>
                /\ queueState # "open"
                /\ queue = <<>>
                /\ unsent = 0)
    /\ [](\A e \in LiveEvents :
             e.outcome = "enqueued" => (e.sends <= 1 /\ e.pushed = e.sendRes))
    /\ ((queueState # "open" /\ Len(workers) = 1)
           ~> (Len(workers) = 1 /\ workers[1].pc = "exited"))

\* Close was called while one unit is with the worker and another waits in
\* the queue
C23_ClosedWithBacklog ==
    /\ queueState = "closed"
    /\ queue # <<>>
    /\ \E w \in Workers : workers[w].pc = "send"

\* A step that reads a configuration field of the client: the sampling gate,
\* the two exclusion gates, the snapshot of Capture, the snapshot of the worker
ConfigRead ==
    \/ \E r \in BagToSet(cl) : Sample(r) \/ WrapperExclude(r) \/ Exclude(r) \/ InitPacket(r)
    \/ \E w \in 1..Len(workers) : WorkerSend(w)

\* C22: every read of a configuration field by a capture or by the worker is
\* made with the lock held in shared mode, so no read is made while a setter
\* holds the lock exclusively.
C22_ReadsUnderSharedLock == [][ConfigRead => mu.writer = ""]_vars

\* C26: while Transport.Send is in progress the worker holds no lock on the
\* configuration: a setter can take the lock, a setter that has it can finish,
\* and the snapshot of a concurrent Capture can be taken.
C26_SendHoldsNoLock ==
    \A w \in Workers :
        workers[w].pc = "send" =>
            /\ mu.readers = 0
            /\ mu.writer = "" =>
                  /\ \A rate \in RateInputs : ENABLED SetSampleRateLock(rate)
                  /\ ENABLED SetDSN(DsnMoved)
                  /\ \A r \in Callers : r.pc = "init" => ENABLED InitPacket(r)
            /\ mu.writer # "" => ENABLED SetSampleRateUnlock

\* A delivery is in flight while SetSampleRate is inside its critical section
\* and a capture is about to take its snapshot
C26_SetterDuringSend ==
    /\ \E w \in Workers : workers[w].pc = "send"
    /\ mu.writer = "SetSampleRate"
    /\ \E r \in Callers : r.pc = "init"

\* The value Capture leaves in a field the caller set to mine: the caller's
\* if it is not empty, the client's otherwise
Kept(mine, clients) == IF mine # "" THEN mine ELSE clients

\* The events Capture has filled and that are on their way to the server
Labelled == {e \in LiveEvents : e.snap # <<>> /\ e.outcome # "initfail"}

\* C21: project, release, environment and logger of an event are, for each
\* field the caller left empty, the client's values at the moment of
\* Capture's snapshot (the logger is "root" when the client has no default
\* logger name), and stay so while the event is queued and delivered
\* whatever is set on the client afterwards; a field the caller set keeps
\* the caller's value.
C21_LabelsFromSnapshot ==
    /\ [](\A e \in Labelled :
             LET s == e.snap[1]
             IN /\ e.packet.Project = Kept(e.given.Project, s.projectID)
                /\ e.packet.Release = Kept(e.given.Release, s.release)
                /\ e.packet.Environment = Kept(e.given.Environment, s.environment)
                /\ e.packet.Logger = Kept(e.given.Logger, Kept(s.defaultLoggerName, "root")))
    /\ [][\A r \in BagToSet(cl) :
             InitPacket(r) =>
                 \E r2 \in BagToSet(cl') :
                     /\ r2.pc \in {"start", "initdone"}
                     /\ r2.ev.snap # <<>>
                     /\ r2.ev.snap[1] = [projectID |-> projectID, release |-> release,
                                         environment |-> environment,
                                         defaultLoggerName |-> defaultLoggerName]]_vars

\* A delivery is in flight for an event whose fields the caller left empty
\* and were filled from a configuration that has since been changed in all
\* four fields
C21_ChangedAfterSnapshot ==
    \E w \in Workers :
        /\ workers[w].pc = "send"
        /\ workers[w].ev.snap # <<>>
        /\ workers[w].ev.given = NewPacket
        /\ LET s == workers[w].ev.snap[1]
           IN /\ s.projectID # projectID
              /\ s.release # release
              /\ s.environment # environment
              /\ s.defaultLoggerName # defaultLoggerName

\* The events whose tags Capture has merged
Merged == {e \in LiveEvents : e.snap # <<>>}
\* The tags at positions a+1 .. a+n of list t
Segment(t, a, n) == {t[i] : i \in (a + 1)..(a + n)}

\* C24: after the merge the tag list of the event is the list the packet
\* came with, then the tags of the call, then the default tags of the
\* client, then the context tags, each map's entries in some order: its
\* length is the sum of the four sizes, nothing that was there is removed
\* or replaced, and a key that several sources have is there once for each.
C24_TagsAppendedInSourceOrder ==
    \A e \in Merged :
        LET t == e.packet.Tags
            n0 == Len(e.given.Tags)
            n1 == Cardinality(e.captureTags)
            n2 == Cardinality(e.snap[2])
            n3 == Cardinality(e.snap[3])
        IN /\ Len(t) = n0 + n1 + n2 + n3
           /\ SubSeq(t, 1, n0) = e.given.Tags
           /\ Segment(t, n0, n1) = e.captureTags
           /\ Segment(t, n0 + n1, n2) = e.snap[2]
           /\ Segment(t, n0 + n1 + n2, n3) = e.snap[3]

\* A delivery is in flight for an event whose packet, call, client and
\* context each had a tag with key k: the list has the four of them
C24_SharedKeyFourTimes ==
    \E w \in Workers :
        /\ workers[w].pc = "send"
        /\ workers[w].ev.given = TaggedPacket
        /\ workers[w].ev.captureTags = CallTags
        /\ workers[w].ev.snap # <<>>
        /\ <<"k", "context">> \in workers[w].ev.snap[3]
        /\ LET t == workers[w].ev.packet.Tags
           IN Cardinality({i \in 1..Len(t) : t[i][1] = "k"}) = 4
====
